---- MODULE Spec2Model ----
(***************************************************************************)
(* Model of the pipeline orchestrator: the graph builder (Pipeline.add,    *)
(* Pipeline.detect_cycle, Pipeline.generate_dag), the concurrent Kahn      *)
(* scheduler (PipelineCursor.__call__ and PipelineCursor.execute), the     *)
(* error handlers and the step-run recorder (JobLogHandler over LogTable). *)
(***************************************************************************)
EXTENDS Integers, Sequences, FiniteSets, TLC

\* Step names used in configurations and in add calls.
Steps == {"A", "B", "C"}

\* Python's None.
None == "None"

\* The None that execute returns in place of a future.
NoFuture == 0

\* Number of direct Pipeline.add calls made on one Pipeline object.
MaxAdd == 3

\* Number of direct calls made on one JobLogHandler object.
MaxOps == 4

VARIABLES
  config,     \* Pipeline.execution_context.steps: declared steps, in file order
  nodes,      \* keys of Pipeline.graph, in insertion order
  graph,      \* Pipeline.graph: successor list of every key
  deps,       \* Pipeline.deps: in-degree counts (0 for an absent key)
  call,       \* the last builder call with its arguments and return value
  nAdd,       \* direct add calls made so far
  built,      \* generate_dag has been called
  rejected,   \* some add made by generate_dag returned False
  pc,         \* where Pipeline.run is: build, seed, while, for, unwinding, done, raised;
              \* "recorder" when a JobLogHandler is used on its own, "table"
              \* when a LogTable is, "graph" when detect_cycle is
  steps,      \* PipelineCursor.steps: what execute finds for each step name
  handler,    \* PipelineCursor.error_handler
  ldeps,      \* the local deps of PipelineCursor.__call__ (the copy)
  q,          \* the local list q of (step_name, execution) pairs
  result,     \* the local list result
  seedIdx,    \* position of the seeding loop in the keys of the graph
  i,          \* position of the iterator of "for step_name, execution in q"
  futures,    \* the futures returned by executor.submit, in submission order
  log,        \* the JobLogHandler with its LogTable and the table's rows
  exc,        \* the exception that left PipelineCursor.__call__, or None
  policy,     \* the calls of the error handler made so far
  job_report, \* the JobReport created by Pipeline.run
  ops         \* the calls made directly on a JobLogHandler, with what they met

builder == <<config, nodes, graph, deps, call, nAdd, built, rejected>>
builderButDeps == <<config, nodes, graph, call, nAdd, built, rejected>>
cursor == <<steps, handler, ldeps, q, result, seedIdx, i, futures, log, exc, policy>>
vars == <<builder, pc, cursor, job_report, ops>>

Range(s) == {s[k] : k \in 1..Len(s)}

\* ------------------------------------------------------------------------
\* Graph builder
\* ------------------------------------------------------------------------

\* The Pipeline's graph and deps as one value.
Dag == [nodes |-> nodes, graph |-> graph, deps |-> deps]

\* Variant of the lookup that adds the key whether or not it is present.
TouchAlways(b, n) == [b EXCEPT !.nodes = Append(@, n)]

\* self.graph[n] on the defaultdict: an absent key is created with [].
Touch(b, n) ==
  IF n \in Range(b.nodes) THEN b ELSE [b EXCEPT !.nodes = Append(@, n)]

\* list.remove(x): drops the first occurrence of x.
RECURSIVE RemoveFirst(_, _)
RemoveFirst(s, x) ==
  IF s = <<>> THEN <<>>
  ELSE IF Head(s) = x THEN Tail(s)
  ELSE <<Head(s)>> \o RemoveFirst(Tail(s), x)

RECURSIVE dfs(_, _, _, _)
RECURSIVE dfsNeighbors(_, _, _, _, _)

RECURSIVE dfsNeighborsKeepStack(_, _, _, _, _)
\* Variant of the for loop of dfs that leaves node on the stack when the
\* loop has run out.
dfsNeighborsKeepStack(g, node, k, visited, stack) ==
  IF k > Len(g[node])
  THEN [found |-> FALSE, visited |-> visited, stack |-> stack]
  ELSE LET neighbor == g[node][k] IN
       IF neighbor \notin visited
       THEN LET r == dfs(g, neighbor, visited, stack) IN
            IF r.found THEN r
            ELSE dfsNeighborsKeepStack(g, node, k + 1, r.visited, r.stack)
       ELSE IF neighbor \in stack
       THEN [found |-> TRUE, visited |-> visited, stack |-> stack]
       ELSE dfsNeighborsKeepStack(g, node, k + 1, visited, stack)

\* The for loop of dfs over self.graph[node], from its k-th entry on.
dfsNeighbors(g, node, k, visited, stack) ==
  IF k > Len(g[node])
  THEN [found |-> FALSE, visited |-> visited, stack |-> stack \ {node}]
  ELSE LET neighbor == g[node][k] IN
       IF neighbor \notin visited
       THEN LET r == dfs(g, neighbor, visited, stack) IN
            IF r.found THEN r
            ELSE dfsNeighbors(g, node, k + 1, r.visited, r.stack)
       ELSE IF neighbor \in stack
       THEN [found |-> TRUE, visited |-> visited, stack |-> stack]
       ELSE dfsNeighbors(g, node, k + 1, visited, stack)

\* The inner function dfs of detect_cycle; visited is the closure's set.
dfs(g, node, visited, stack) ==
  dfsNeighbors(g, node, 1, visited \cup {node}, stack \cup {node})

RECURSIVE detectFrom(_, _, _)
\* Variant of the outer loop that starts a traversal from the first key only.
detectFromFirstOnly(b, k, visited) ==
  IF k > 1 \/ k > Len(b.nodes) THEN FALSE
  ELSE dfs(b.graph, b.nodes[k], visited, {}).found

\* The outer loop of detect_cycle over list(self.graph), from its k-th key on.
detectFrom(b, k, visited) ==
  IF k > Len(b.nodes) THEN FALSE
  ELSE IF b.nodes[k] \in visited THEN detectFrom(b, k + 1, visited)
  ELSE LET r == dfs(b.graph, b.nodes[k], visited, {}) IN
       IF r.found THEN TRUE ELSE detectFrom(b, k + 1, r.visited)

detect_cycle(b) == detectFrom(b, 1, {})

\* Pipeline.add without the rollback of the tentative edge.
addNoRollback(b, step, depends_on) ==
  LET b1 == Touch(b, step) IN
  IF depends_on = None THEN [dag |-> b1, ret |-> TRUE]
  ELSE IF depends_on = step THEN [dag |-> b1, ret |-> FALSE]
  ELSE LET b2 == Touch(b1, depends_on) IN
       IF step \in Range(b2.graph[depends_on]) THEN [dag |-> b2, ret |-> FALSE]
       ELSE LET b3 == [b2 EXCEPT !.graph[depends_on] = Append(@, step)] IN
            IF detect_cycle(b3)
            THEN [dag |-> b3, ret |-> FALSE]
            ELSE [dag |-> [b3 EXCEPT !.graph[depends_on] = Append(@, step),
                                     !.deps[step] = @ + 1],
                  ret |-> TRUE]

\* Pipeline.add without the cycle check.
addNoCycleCheck(b, step, depends_on) ==
  LET b1 == Touch(b, step) IN
  IF depends_on = None THEN [dag |-> b1, ret |-> TRUE]
  ELSE IF depends_on = step THEN [dag |-> b1, ret |-> FALSE]
  ELSE LET b2 == Touch(b1, depends_on) IN
       IF step \in Range(b2.graph[depends_on]) THEN [dag |-> b2, ret |-> FALSE]
       ELSE [dag |-> [b2 EXCEPT !.graph[depends_on] = Append(Append(@, step), step),
                                !.deps[step] = @ + 1],
             ret |-> TRUE]

\* Pipeline.add without the count of the new prerequisite in deps.
addNoInDegree(b, step, depends_on) ==
  LET b1 == Touch(b, step) IN
  IF depends_on = None THEN [dag |-> b1, ret |-> TRUE]
  ELSE IF depends_on = step THEN [dag |-> b1, ret |-> FALSE]
  ELSE LET b2 == Touch(b1, depends_on) IN
       IF step \in Range(b2.graph[depends_on]) THEN [dag |-> b2, ret |-> FALSE]
       ELSE LET b3 == [b2 EXCEPT !.graph[depends_on] = Append(@, step)] IN
            IF detect_cycle(b3)
            THEN [dag |-> [b3 EXCEPT !.graph[depends_on] = RemoveFirst(@, step)],
                  ret |-> FALSE]
            ELSE [dag |-> [b3 EXCEPT !.graph[depends_on] = Append(@, step)],
                  ret |-> TRUE]

\* Pipeline.add: the graph after the call and the value returned.
add(b, step, depends_on) ==
  LET b1 == Touch(b, step) IN
  IF depends_on = None THEN [dag |-> b1, ret |-> TRUE]
  ELSE IF depends_on = step THEN [dag |-> b1, ret |-> FALSE]
  ELSE LET b2 == Touch(b1, depends_on) IN
       IF step \in Range(b2.graph[depends_on]) THEN [dag |-> b2, ret |-> FALSE]
       ELSE LET b3 == [b2 EXCEPT !.graph[depends_on] = Append(@, step)] IN
            IF detect_cycle(b3)
            THEN [dag |-> [b3 EXCEPT !.graph[depends_on] = RemoveFirst(@, step)],
                  ret |-> FALSE]
            ELSE [dag |-> [b3 EXCEPT !.graph[depends_on] = Append(@, step),
                                     !.deps[step] = @ + 1],
                  ret |-> TRUE]

RECURSIVE generateFrom(_, _, _, _)
\* The loop of generate_dag over execution_context.steps.items(), from the
\* k-th declared step on; rej collects the add results that were False.
generateFrom(b, cfg, k, rej) ==
  IF k > Len(cfg) THEN [dag |-> b, rejected |-> rej]
  ELSE LET r == add(b, cfg[k].name, cfg[k].depends_on) IN
       generateFrom(r.dag, cfg, k + 1, rej \/ ~r.ret)

\* Pipeline.generate_dag: add is called for every declared step, in file order.
generate_dag(b, cfg) == generateFrom(b, cfg, 1, FALSE)

RECURSIVE sortNeighbors(_, _, _, _)
\* The loop of topological_sort over self.graph[node], from its k-th entry on:
\* self.deps is decremented in place, a neighbor at zero is put in the queue.
\* Gives the deps and the queue after the loop.
sortNeighbors(d, queue, succ, k) ==
  IF k > Len(succ) THEN [deps |-> d, q |-> queue]
  ELSE LET d1 == [d EXCEPT ![succ[k]] = @ - 1] IN
       sortNeighbors(d1, IF d1[succ[k]] = 0 THEN Append(queue, succ[k]) ELSE queue,
                     succ, k + 1)

RECURSIVE sortFrom(_, _, _)
\* The loop "while q" of topological_sort.
sortFrom(b, queue, res) ==
  IF queue = <<>> THEN [dag |-> b, result |-> res]
  ELSE LET node == Head(queue)
           r == sortNeighbors(b.deps, Tail(queue), b.graph[node], 1)
       IN sortFrom([b EXCEPT !.deps = r.deps], r.q, Append(res, node))

\* Pipeline.topological_sort: the graph after the call (its deps are written
\* in place), the list built, and whether ValueError is raised instead of
\* returning it.
topological_sort(b) ==
  LET zero == SelectSeq(b.nodes, LAMBDA n : b.deps[n] = 0)
      r == sortFrom(b, zero, <<>>)
  IN [dag |-> r.dag, result |-> r.result,
      raised |-> Len(r.result) # Len(b.nodes)]

\* ------------------------------------------------------------------------
\* Step-run recorder: LogTable and JobLogHandler
\* ------------------------------------------------------------------------

NoRunId == <<>>

\* A JobLogHandler right after construction, over an empty table.
NewLogHandler == [changes |-> <<>>, table |-> <<>>, run_id |-> NoRunId, uuid |-> 0]

\* A mapping (dict or table row) extended or overwritten with column a = v.
Put(m, a, v) == (a :> v) @@ m

\* LogTable.set_attr: stage one column value in self.changes.
set_attr(l, attribute, value) == [l EXCEPT !.changes = Put(@, attribute, value)]

\* LogTable.get: COUNT(1) of the rows WHERE run_id = ?
get(l, run_id) ==
  Cardinality({k \in 1..Len(l.table) :
                 "run_id" \in DOMAIN l.table[k] /\ l.table[k]["run_id"] = run_id})

\* str(datetime.now()) read by handler l: readings made under different run
\* ids are different times, readings under one run id are not told apart.
now(l) == <<"now", l.uuid>>

\* The column defaults of the CREATE TABLE statement.
RowDefaults == ("created_by" :> "system") @@ ("created_at" :> "now")

\* Variant of save that inserts a new row whether or not run_id has one.
saveAlwaysInserts(l, run_id, db_raises) ==
  IF db_raises THEN l ELSE
  [l EXCEPT !.table = Append(l.table, l.changes @@ RowDefaults),
            !.changes = <<>>]

\* Variant of save whose UPDATE replaces the row by the staged columns.
saveReplacesRow(l, run_id, db_raises) ==
  IF db_raises THEN l ELSE
  LET updated == [k \in 1..Len(l.table) |->
                    IF "run_id" \in DOMAIN l.table[k] /\ l.table[k]["run_id"] = run_id
                    THEN l.changes @@ RowDefaults
                    ELSE l.table[k]]
      inserted == Append(l.table, l.changes @@ RowDefaults)
  IN [l EXCEPT !.table = IF get(l, run_id) # 0 THEN updated ELSE inserted,
               !.changes = <<>>]

\* LogTable.save: UPDATE the rows of run_id with the staged columns when there
\* is one, else INSERT the staged columns as a new row; then clear the stage.
\* db_raises says whether conn.execute raises: the statement then has no
\* effect and the stage is not cleared.
save(l, run_id, db_raises) ==
  IF db_raises THEN l ELSE
  LET updated == [k \in 1..Len(l.table) |->
                    IF "run_id" \in DOMAIN l.table[k] /\ l.table[k]["run_id"] = run_id
                    THEN l.changes @@ l.table[k]
                    ELSE l.table[k]]
      inserted == Append(l.table, l.changes @@ RowDefaults)
  IN [l EXCEPT !.table = IF get(l, run_id) # 0 THEN updated ELSE inserted,
               !.changes = <<>>]

\* JobLogHandler.create; an exception of save leaves it.
create(l, name, params, db_raises) ==
  LET id == <<name, l.uuid + 1>>
      l0 == [l EXCEPT !.run_id = id, !.uuid = @ + 1]
      l1 == set_attr(l0, "run_id", id)
      l2 == set_attr(l1, "job_name", name)
      l3 == set_attr(l2, "step_name", name)
      l4 == set_attr(l3, "start_ts", now(l0))
      l5 == set_attr(l4, "ttl", "now+1y")
      l6 == set_attr(l5, "last_updated_at", now(l0))
      l7 == set_attr(l6, "params", params)
  IN save(l7, id, db_raises)

\* JobLogHandler.start; an exception of save is caught.
start(l, db_raises) == save(set_attr(l, "status", "RUNNING"), l.run_id, db_raises)

\* JobLogHandler.success; an exception of save is caught, before run_id is reset.
success(l, db_raises) ==
  LET l1 == set_attr(l, "status", "SUCCESS")
      l2 == set_attr(l1, "end_ts", now(l))
      l3 == set_attr(l2, "last_updated_at", now(l))
  IN IF db_raises THEN save(l3, l.run_id, TRUE)
     ELSE [save(l3, l.run_id, FALSE) EXCEPT !.run_id = NoRunId]

\* JobLogHandler.failed; an exception of save is caught, before run_id is reset.
failed(l, error_message, db_raises) ==
  LET l1 == set_attr(l, "status", "FAILED")
      l2 == set_attr(l1, "error_message", error_message)
      l3 == set_attr(l2, "end_ts", now(l))
      l4 == set_attr(l3, "last_updated_at", now(l))
  IN IF db_raises THEN save(l4, l.run_id, TRUE)
     ELSE [save(l4, l.run_id, FALSE) EXCEPT !.run_id = NoRunId]

\* Variant of end over a LogTable.clear that empties the table.
endClearsTable(l) == [l EXCEPT !.table = <<>>]

\* JobLogHandler.end: LogTable.clear raises NotImplementedError, which is
\* caught; nothing is written.
end(l) == l

\* ------------------------------------------------------------------------
\* Error handlers
\* ------------------------------------------------------------------------

Handlers == {"SimpleErrorHandler", "ContinueUnlessCritical"}

\* SimpleErrorHandler.__call__: raises the error it is given.
SimpleErrorHandler(error) == "raise"

\* ContinueUnlessCritical.__call__: raises an InvalidSourceError, else goes on
\* with next_step(context).
ContinueUnlessCritical(error) ==
  IF error = "InvalidSourceError" THEN "raise" ELSE "next_step"

\* Positional parameters of ErrorHandler.__call__ after self: error, context, next_step.
HandlerParams == 3

\* Arguments execute passes: self.error_handler(error, params).
HandlerArgs == 2

\* The call self.error_handler(error, params) in execute: the exception it
\* raises, or None when the handler returns.
error_handler(h, error) ==
  IF HandlerArgs # HandlerParams THEN "TypeError"
  ELSE IF h = "SimpleErrorHandler"
  THEN (IF SimpleErrorHandler(error) = "raise" THEN error ELSE None)
  ELSE (IF ContinueUnlessCritical(error) = "raise" THEN error ELSE None)

\* ------------------------------------------------------------------------
\* Scheduler: PipelineCursor
\* ------------------------------------------------------------------------

\* What execute finds for a step name is one of: "undeclared" (no entry in
\* self.steps), "nouses" (an entry without "uses"), "unregistered" (an action
\* name that is not in ActionFactory.registry), "ok" (a registered action).

\* The state PipelineCursor.__call__ works on, as one value.
Cur ==
  [ldeps |-> ldeps, q |-> q, futures |-> futures, log |-> log, exc |-> exc,
   policy |-> policy]

\* The calls of execute that meet the outside: the four recorder calls, which
\* execute a statement on the database connection, and executor.submit.
FaultPoints == {"create", "start", "submit", "success", "failed"}

\* Variant of execute that creates and starts the record of the step before it
\* looks the action up.
executeRecordsFirst(c, step_name, faults) ==
  IF steps[step_name] = "undeclared"
  THEN [cur |-> [c EXCEPT !.exc = "AttributeError"], execution |-> NoFuture]
  ELSE IF steps[step_name] = "nouses"
  THEN [cur |-> c, execution |-> NoFuture]
  ELSE IF "create" \in faults
  THEN [cur |-> [c EXCEPT !.log = create(c.log, step_name, step_name, TRUE),
                          !.exc = "duckdb.Error"],
        execution |-> NoFuture]
  ELSE LET l1 == start(create(c.log, step_name, step_name, FALSE),
                       "start" \in faults) IN
       IF steps[step_name] = "unregistered"
       THEN [cur |-> [c EXCEPT !.log = l1, !.exc = "ActionNotFound"],
             execution |-> NoFuture]
       ELSE IF "submit" \notin faults
       THEN [cur |-> [c EXCEPT !.futures = Append(@, [step |-> step_name,
                                                      state |-> "running"]),
                               !.log = success(l1, "success" \in faults)],
             execution |-> Len(c.futures) + 1]
       ELSE [cur |-> [c EXCEPT !.log = failed(l1, "RuntimeError",
                                              "failed" \in faults),
                               !.policy = Append(@, [step |-> step_name,
                                                     error |-> "RuntimeError"]),
                               !.exc = error_handler(handler, "RuntimeError")],
             execution |-> NoFuture]

\* PipelineCursor.execute for step_name; faults is the set of the calls that
\* raise (for a recorder call: its save raises).  Gives the state after the
\* call and the value returned (the index of the new future, or NoFuture).
execute(c, step_name, faults) ==
  IF steps[step_name] = "undeclared"
  THEN [cur |-> [c EXCEPT !.exc = "AttributeError"], execution |-> NoFuture]
  ELSE IF steps[step_name] = "nouses"
  THEN [cur |-> c, execution |-> NoFuture]
  ELSE IF steps[step_name] = "unregistered"
  THEN [cur |-> [c EXCEPT !.exc = "ActionNotFound"], execution |-> NoFuture]
  ELSE IF "create" \in faults
  THEN [cur |-> [c EXCEPT !.log = create(c.log, step_name, step_name, TRUE),
                          !.exc = "duckdb.Error"],
        execution |-> NoFuture]
  ELSE LET l1 == start(create(c.log, step_name, step_name, FALSE),
                       "start" \in faults) IN
       IF "submit" \notin faults
       THEN [cur |-> [c EXCEPT !.futures = Append(@, [step |-> step_name,
                                                      state |-> "running"]),
                               !.log = success(l1, "success" \in faults)],
             execution |-> Len(c.futures) + 1]
       ELSE [cur |-> [c EXCEPT !.log = failed(l1, "RuntimeError",
                                              "failed" \in faults),
                               !.policy = Append(@, [step |-> step_name,
                                                     error |-> "RuntimeError"]),
                               !.exc = error_handler(handler, "RuntimeError")],
             execution |-> NoFuture]

\* The calls that raise for step n among the pairs of fails.
FaultsOf(fails, n) == {p \in FaultPoints : <<n, p>> \in fails}

RECURSIVE neighborsFrom(_, _, _, _)
\* The loop over self.graph[step_name] at a completed step, from its k-th
\* entry on: decrement the in-degree, dispatch at zero.  It stops at the first
\* exception.  fails is the set of the pairs <<step, call>> that raise.
neighborsDispatchAtMostZero(c, step_name, k, fails) ==
  IF k > Len(graph[step_name]) \/ c.exc # None THEN c
  ELSE LET neighbor == graph[step_name][k]
           c1 == [c EXCEPT !.ldeps[neighbor] = @ - 1]
       IN IF c1.ldeps[neighbor] <= 0
          THEN LET e == execute(c1, neighbor, FaultsOf(fails, neighbor)) IN
               neighborsFrom(
                 [e.cur EXCEPT !.q = IF e.cur.exc = None
                                     THEN Append(@, <<neighbor, e.execution>>)
                                     ELSE @],
                 step_name, k + 1, fails)
          ELSE neighborsFrom(c1, step_name, k + 1, fails)

\* Variant of the loop that leaves the successors of a step alone when its
\* invocation raised.
neighborsSkipOnError(c, step_name, k, fails) ==
  IF \/ k > Len(graph[step_name])
     \/ c.exc # None
     \/ \E f \in 1..Len(c.futures) :
          c.futures[f].step = step_name /\ c.futures[f].state = "error"
  THEN c
  ELSE LET neighbor == graph[step_name][k]
           c1 == [c EXCEPT !.ldeps[neighbor] = @ - 1]
       IN IF c1.ldeps[neighbor] = 0
          THEN LET e == execute(c1, neighbor, FaultsOf(fails, neighbor)) IN
               neighborsFrom(
                 [e.cur EXCEPT !.q = IF e.cur.exc = None
                                     THEN Append(@, <<neighbor, e.execution>>)
                                     ELSE @],
                 step_name, k + 1, fails)
          ELSE neighborsFrom(c1, step_name, k + 1, fails)

neighborsFrom(c, step_name, k, fails) ==
  IF k > Len(graph[step_name]) \/ c.exc # None THEN c
  ELSE LET neighbor == graph[step_name][k]
           c1 == [c EXCEPT !.ldeps[neighbor] = @ - 1]
       IN IF c1.ldeps[neighbor] = 0
          THEN LET e == execute(c1, neighbor, FaultsOf(fails, neighbor)) IN
               neighborsFrom(
                 [e.cur EXCEPT !.q = IF e.cur.exc = None
                                     THEN Append(@, <<neighbor, e.execution>>)
                                     ELSE @],
                 step_name, k + 1, fails)
          ELSE neighborsFrom(c1, step_name, k + 1, fails)

\* Variant in which __call__ works on self.deps itself instead of a copy.
depsNotCopied(c) == c.ldeps

\* Pipeline.deps after a piece of __call__ that ended in state c: the local
\* deps is self.deps.copy(), a dict of its own, so no write reaches it.
sharedDeps(c) == deps

\* The cursor variables after a piece of __call__ that ended in state c.
SetCur(c) ==
  /\ deps' = sharedDeps(c)
  /\ ldeps' = c.ldeps
  /\ q' = c.q
  /\ futures' = c.futures
  /\ log' = c.log
  /\ exc' = c.exc
  /\ policy' = c.policy

\* ------------------------------------------------------------------------
\* Operations
\* ------------------------------------------------------------------------

\* A direct call pipeline.add(step, depends_on).
Add(step, depends_on) ==
  /\ pc = "build"
  /\ nAdd < MaxAdd
  /\ LET r == add(Dag, step, depends_on) IN
       /\ nodes' = r.dag.nodes
       /\ graph' = r.dag.graph
       /\ deps' = r.dag.deps
       /\ call' = [op |-> "add", step |-> step, depends_on |-> depends_on,
                   ret |-> r.ret]
  /\ nAdd' = nAdd + 1
  /\ UNCHANGED <<config, built, rejected, pc, cursor, job_report, ops>>

\* The call pipeline.generate_dag().
GenerateDag ==
  /\ pc = "build"
  /\ ~built
  /\ built' = TRUE
  /\ LET r == generate_dag(Dag, config) IN
       /\ nodes' = r.dag.nodes
       /\ graph' = r.dag.graph
       /\ deps' = r.dag.deps
       /\ rejected' = r.rejected
  /\ call' = [op |-> "generate_dag"]
  /\ UNCHANGED <<config, nAdd, pc, cursor, job_report, ops>>

\* ExecutionContext.__init__ of the cursor: self.steps, read from the same
\* configuration file; a name without an entry is "undeclared".
load_steps(cfg) ==
  [n \in Steps |->
     IF \E j \in 1..Len(cfg) : cfg[j].name = n
     THEN (CHOOSE e \in Range(cfg) : e.name = n).uses
     ELSE "undeclared"]

\* Pipeline.run up to the start of the seeding loop of PipelineCursor.__call__:
\* the job report and the log handler are created, the cursor loads the steps
\* and copies deps.  No builder call follows a run here, so the record of the
\* builder calls (call, nAdd) is dropped.
Run(error_handler_arg) ==
  /\ pc = "build"
  /\ pc' = IF nodes = <<>> THEN "while" ELSE "seed"
  /\ job_report' = [created |-> TRUE, start_ts |-> "now", end_ts |-> None,
                    exit_code |-> -1]
  /\ steps' = load_steps(config)
  /\ handler' = error_handler_arg
  /\ ldeps' = deps
  /\ q' = <<>>
  /\ result' = <<>>
  /\ seedIdx' = 1
  /\ i' = 1
  /\ futures' = <<>>
  /\ log' = NewLogHandler
  /\ exc' = None
  /\ policy' = <<>>
  /\ call' = [op |-> "run"]
  /\ nAdd' = 0
  /\ UNCHANGED <<config, nodes, graph, deps, built, rejected, ops>>

\* Variant of the seeding loop that dispatches a step only while nothing has
\* been put in q.
SeedOne(faults) ==
  /\ pc = "seed"
  /\ LET step_name == nodes[seedIdx]
         e == execute(Cur, step_name, faults)
         c == IF ldeps[step_name] = 0 /\ q = <<>>
              THEN [e.cur EXCEPT !.q = IF e.cur.exc = None
                                       THEN Append(@, <<step_name, e.execution>>)
                                       ELSE @]
              ELSE Cur
     IN /\ SetCur(c)
        /\ (ldeps[step_name] # 0 \/ q # <<>>) => faults = {}
        /\ pc' = IF c.exc # None THEN "unwinding"
                 ELSE IF seedIdx = Len(nodes) THEN "while" ELSE "seed"
  /\ seedIdx' = seedIdx + 1
  /\ UNCHANGED <<builderButDeps, steps, handler, result, i, job_report, ops>>

\* One iteration of "for step_name in self.graph" of the seeding loop.
Seed(faults) ==
  /\ pc = "seed"
  /\ LET step_name == nodes[seedIdx]
         e == execute(Cur, step_name, faults)
         c == IF ldeps[step_name] = 0
              THEN [e.cur EXCEPT !.q = IF e.cur.exc = None
                                       THEN Append(@, <<step_name, e.execution>>)
                                       ELSE @]
              ELSE Cur
     IN /\ SetCur(c)
        /\ ldeps[step_name] # 0 => faults = {}
        /\ pc' = IF c.exc # None THEN "unwinding"
                 ELSE IF seedIdx = Len(nodes) THEN "while" ELSE "seed"
  /\ seedIdx' = seedIdx + 1
  /\ UNCHANGED <<builderButDeps, steps, handler, result, i, job_report, ops>>

\* The test of "while q", at the start of the loop and whenever the for loop
\* over q has run out: leave with the result, or start the for loop again.
While ==
  /\ pc = "while"
  /\ pc' = IF q = <<>> THEN "done" ELSE "for"
  /\ i' = 1
  /\ UNCHANGED <<builder, steps, handler, ldeps, q, result, seedIdx, futures, log,
                 exc, policy, job_report, ops>>

\* Variant of the for loop's iteration that never finds an invocation done:
\* every entry is passed over and stays in q.
ForNeverCollects(fails) ==
  /\ pc = "for"
  /\ fails = {}
  /\ i' = i + 1
  /\ pc' = IF i + 1 > Len(q) THEN "while" ELSE "for"
  /\ UNCHANGED <<builder, steps, handler, ldeps, q, result, seedIdx, futures, log,
                 exc, policy, job_report, ops>>

\* One iteration of "for step_name, execution in q" on its i-th entry.
For(fails) ==
  /\ pc = "for"
  /\ LET step_name == q[i][1]
         execution == q[i][2]
     IN IF execution = NoFuture
        THEN \* None.done()
             /\ fails = {}
             /\ exc' = "AttributeError"
             /\ pc' = "unwinding"
             /\ UNCHANGED <<deps, ldeps, q, result, futures, log, policy, i>>
        ELSE IF futures[execution].state = "running"
        THEN \* not done: continue
             /\ fails = {}
             /\ i' = i + 1
             /\ pc' = IF i + 1 > Len(q) THEN "while" ELSE "for"
             /\ UNCHANGED <<deps, ldeps, q, result, futures, log, exc, policy>>
        ELSE LET c0 == [Cur EXCEPT !.q = RemoveFirst(@, q[i])]
                 c == neighborsFrom(c0, step_name, 1, fails)
             IN /\ \A p \in fails : p[1] \in Range(graph[step_name])
                /\ SetCur(c)
                /\ result' = Append(result, step_name)
                /\ i' = i + 1
                /\ pc' = IF c.exc # None THEN "unwinding"
                         ELSE IF i + 1 > Len(c.q) THEN "while" ELSE "for"
  /\ UNCHANGED <<builderButDeps, steps, handler, seedIdx, job_report, ops>>

\* A worker thread ends the invocation behind future f, with or without an
\* exception.
Finish(f, outcome) ==
  /\ pc \in {"seed", "while", "for", "unwinding"}
  /\ f \in 1..Len(futures)
  /\ futures[f].state = "running"
  /\ futures' = [futures EXCEPT ![f].state = outcome]
  /\ UNCHANGED <<builder, pc, steps, handler, ldeps, q, result, seedIdx, i, log, exc,
                 policy, job_report, ops>>

\* The exit of "with ThreadPoolExecutor()" on an exception: shutdown waits for
\* the running invocations, then the exception leaves __call__ and run.
Unwind ==
  /\ pc = "unwinding"
  /\ \A f \in 1..Len(futures) : futures[f].state # "running"
  /\ pc' = "raised"
  /\ UNCHANGED <<builder, cursor, job_report, ops>>

\* A configuration: the declared steps in file order, each with its depends_on
\* and with what its "uses" resolves to.
Entries == [name : Steps, depends_on : Steps \cup {None}, uses : {"ok"}]

Configs ==
  {c \in UNION {[1..n -> Entries] : n \in 0..Cardinality(Steps)} :
     \A j, k \in 1..Len(c) : j # k => c[j].name # c[k].name}

\* The configuration that declares every step without depends_on.
PlainConfig ==
  <<[name |-> "A", depends_on |-> None, uses |-> "ok"],
    [name |-> "B", depends_on |-> None, uses |-> "ok"],
    [name |-> "C", depends_on |-> None, uses |-> "ok"]>>

InitWith(cfg) ==
  /\ config = cfg
  /\ nodes = <<>>
  /\ graph = [n \in Steps |-> <<>>]
  /\ deps = [n \in Steps |-> 0]
  /\ call = [op |-> "init"]
  /\ nAdd = 0
  /\ built = FALSE
  /\ rejected = FALSE
  /\ pc = "build"
  /\ steps = [n \in Steps |-> "undeclared"]
  /\ handler = "SimpleErrorHandler"
  /\ ldeps = [n \in Steps |-> 0]
  /\ q = <<>>
  /\ result = <<>>
  /\ seedIdx = 1
  /\ i = 1
  /\ futures = <<>>
  /\ log = NewLogHandler
  /\ exc = None
  /\ policy = <<>>
  /\ job_report = [created |-> FALSE, start_ts |-> None, end_ts |-> None,
                   exit_code |-> -1]
  /\ ops = <<>>

RunSteps ==
  \/ \E h \in Handlers : Run(h)
  \/ \E faults \in SUBSET {"submit"} : Seed(faults)
  \/ While
  \/ \E fails \in SUBSET (Steps \X {"submit"}) : For(fails)
  \/ \E f \in 1..Cardinality(Steps), outcome \in {"ok", "error"} : Finish(f, outcome)
  \/ Unwind

\* A pipeline whose steps are declared without depends_on and whose edges are
\* added by direct add calls.
Init == InitWith(PlainConfig)

Next ==
  \/ \E step \in Steps, depends_on \in Steps \cup {None} : Add(step, depends_on)
  \/ GenerateDag
  \/ RunSteps

Spec == Init /\ [][Next]_vars

\* Where the thread that executes __call__ stands.
position == <<pc, seedIdx, i>>

\* The thread that executes __call__ moves on: every iteration of the seeding
\* loop advances seedIdx, every test of "while q" and every iteration of the
\* for loop changes pc or i.
Advance ==
  /\ pc \in {"seed", "while", "for"}
  /\ pc' \in {"seed", "while", "for", "unwinding", "done"}
  /\ seedIdx' \in {seedIdx, seedIdx + 1}
  /\ i' \in {1, i, i + 1}

\* Fair scheduling: the calling thread is not suspended for ever at a
\* statement of __call__, every invocation on the pool comes to an end, and the
\* exit of the with block returns once the pool is idle.
Fairness ==
  /\ WF_position(Advance)
  /\ WF_vars(Unwind)
  /\ \A f \in 1..Cardinality(Steps) :
       WF_vars(\E outcome \in {"ok", "error"} : Finish(f, outcome))

\* The pipeline of Spec under fair scheduling.
SpecFair == Init /\ [][Next]_vars /\ Fairness

\* A pipeline built from its configuration file alone.
InitConfig == \E cfg \in Configs : InitWith(cfg)

NextConfig ==
  \/ GenerateDag
  \/ RunSteps

SpecConfig == InitConfig /\ [][NextConfig]_vars

\* A pipeline under construction: generate_dag over any configuration, then
\* direct add calls on the graph it built.
NextBuild ==
  \/ GenerateDag
  \/ \E step \in Steps, depends_on \in Steps \cup {None} :
       built /\ Add(step, depends_on)

SpecBuild == InitConfig /\ [][NextBuild]_vars

\* The configurations that declare A, B with depends_on A and C with
\* depends_on A, in any file order; uses gives what the steps' "uses" may be.
ScenarioConfigs(uses) ==
  {c \in [1..Cardinality(Steps) ->
             [name : Steps, depends_on : {None, "A"}, uses : uses]] :
     /\ \A j, k \in 1..Len(c) : j # k => c[j].name # c[k].name
     /\ \A j \in 1..Len(c) :
          c[j].depends_on = IF c[j].name = "A" THEN None ELSE "A"}

InitScenario == \E cfg \in ScenarioConfigs({"ok"}) : InitWith(cfg)

\* The fan-out A -> B, A -> C with registered actions.
SpecScenario == InitScenario /\ [][NextConfig]_vars

\* The fan-out with steps that have no "uses" or an unregistered action name.
InitActions ==
  \E cfg \in ScenarioConfigs({"ok", "nouses", "unregistered"}) : InitWith(cfg)

SpecActions == InitActions /\ [][NextConfig]_vars

\* A second call of Pipeline.run on the same Pipeline object, after the first
\* has returned: a new cursor over the same graph and deps; the log handler
\* and its table are the ones of the first run.
Rerun(error_handler_arg) ==
  /\ pc = "done"
  /\ call = [op |-> "run"]
  /\ pc' = IF nodes = <<>> THEN "while" ELSE "seed"
  /\ job_report' = [created |-> TRUE, start_ts |-> "now", end_ts |-> None,
                    exit_code |-> -1]
  /\ steps' = load_steps(config)
  /\ handler' = error_handler_arg
  /\ ldeps' = deps
  /\ q' = <<>>
  /\ result' = <<>>
  /\ seedIdx' = 1
  /\ i' = 1
  /\ futures' = <<>>
  /\ exc' = None
  /\ policy' = <<>>
  /\ call' = [op |-> "rerun"]
  /\ UNCHANGED <<config, nodes, graph, deps, nAdd, built, rejected, log, ops>>

\* A call pipeline.topological_sort() before the run, once in a row.
TopologicalSort ==
  /\ pc = "build"
  /\ call.op # "topological_sort"
  /\ LET r == topological_sort(Dag) IN
       /\ deps' = r.dag.deps
       /\ call' = [op |-> "topological_sort", result |-> r.result,
                   raised |-> r.raised]
  /\ UNCHANGED <<config, nodes, graph, nAdd, built, rejected, pc, cursor,
                 job_report, ops>>

NextSort ==
  \/ NextConfig
  \/ TopologicalSort

\* The fan-out A -> B, A -> C on which topological_sort may be called before
\* the run.
SpecSort == InitScenario /\ [][NextSort]_vars

NextRerun ==
  \/ NextConfig
  \/ \E h \in Handlers : Rerun(h)

\* The fan-out A -> B, A -> C run twice.
SpecRerun == InitScenario /\ [][NextRerun]_vars

\* The sets of at most one element of S.
AtMostOne(S) == {{}} \cup {{x} : x \in S}

\* The fan-out run over a database connection whose statements may raise: any
\* one call of a scheduler step may raise.
NextDb ==
  \/ GenerateDag
  \/ \E h \in Handlers : Run(h)
  \/ \E faults \in AtMostOne(FaultPoints) : Seed(faults)
  \/ While
  \/ \E fails \in AtMostOne(Steps \X FaultPoints) : For(fails)
  \/ \E f \in 1..Cardinality(Steps), outcome \in {"ok", "error"} : Finish(f, outcome)
  \/ Unwind

SpecDb == InitScenario /\ [][NextDb]_vars

\* A direct call handler.create(name, params) on a JobLogHandler; the params
\* are those of the step.
Create(name, db_raises) ==
  /\ pc = "recorder"
  /\ Len(ops) < MaxOps
  /\ log' = create(log, name, name, db_raises)
  /\ ops' = Append(ops, [op |-> "create", name |-> name, raised |-> db_raises])
  /\ UNCHANGED <<builder, pc, steps, handler, ldeps, q, result, seedIdx, i, futures,
                 exc, policy, job_report>>

\* A direct call handler.start().
Start(db_raises) ==
  /\ pc = "recorder"
  /\ Len(ops) < MaxOps
  /\ log' = start(log, db_raises)
  /\ ops' = Append(ops, [op |-> "start", name |-> None, raised |-> db_raises])
  /\ UNCHANGED <<builder, pc, steps, handler, ldeps, q, result, seedIdx, i, futures,
                 exc, policy, job_report>>

\* A direct call handler.success().
Succeed(db_raises) ==
  /\ pc = "recorder"
  /\ Len(ops) < MaxOps
  /\ log' = success(log, db_raises)
  /\ ops' = Append(ops, [op |-> "success", name |-> None, raised |-> db_raises])
  /\ UNCHANGED <<builder, pc, steps, handler, ldeps, q, result, seedIdx, i, futures,
                 exc, policy, job_report>>

\* A direct call handler.failed() with the default error message.
Fail(db_raises) ==
  /\ pc = "recorder"
  /\ Len(ops) < MaxOps
  /\ log' = failed(log, "Error", db_raises)
  /\ ops' = Append(ops, [op |-> "failed", name |-> None, raised |-> db_raises])
  /\ UNCHANGED <<builder, pc, steps, handler, ldeps, q, result, seedIdx, i, futures,
                 exc, policy, job_report>>

\* A JobLogHandler used on its own, over an empty table.
InitRecorder ==
  /\ config = <<>>
  /\ nodes = <<>>
  /\ graph = [n \in Steps |-> <<>>]
  /\ deps = [n \in Steps |-> 0]
  /\ call = [op |-> "init"]
  /\ nAdd = 0
  /\ built = FALSE
  /\ rejected = FALSE
  /\ pc = "recorder"
  /\ steps = [n \in Steps |-> "undeclared"]
  /\ handler = "SimpleErrorHandler"
  /\ ldeps = [n \in Steps |-> 0]
  /\ q = <<>>
  /\ result = <<>>
  /\ seedIdx = 1
  /\ i = 1
  /\ futures = <<>>
  /\ log = NewLogHandler
  /\ exc = None
  /\ policy = <<>>
  /\ job_report = [created |-> FALSE, start_ts |-> None, end_ts |-> None,
                   exit_code |-> -1]
  /\ ops = <<>>

\* A direct call handler.end(); it reports False.
End ==
  /\ pc = "recorder"
  /\ Len(ops) < MaxOps
  /\ log' = end(log)
  /\ ops' = Append(ops, [op |-> "end", name |-> None, raised |-> TRUE])
  /\ UNCHANGED <<builder, pc, steps, handler, ldeps, q, result, seedIdx, i, futures,
                 exc, policy, job_report>>

NextRecorder ==
  \/ \E name \in Steps, db_raises \in BOOLEAN : Create(name, db_raises)
  \/ \E db_raises \in BOOLEAN : Start(db_raises)
  \/ \E db_raises \in BOOLEAN : Succeed(db_raises)
  \/ \E db_raises \in BOOLEAN : Fail(db_raises)
  \/ End

SpecRecorder == InitRecorder /\ [][NextRecorder]_vars

\* A direct call table.set_attr(attribute, value) on a LogTable.
SetAttr(attribute, value) ==
  /\ pc = "table"
  /\ Len(ops) < MaxOps
  /\ log' = set_attr(log, attribute, value)
  /\ ops' = Append(ops, [op |-> "set_attr", name |-> attribute, raised |-> FALSE])
  /\ UNCHANGED <<builder, pc, steps, handler, ldeps, q, result, seedIdx, i, futures,
                 exc, policy, job_report>>

\* A direct call table.save(run_id) on a LogTable with something staged, as
\* every caller in the code has.
Save(run_id, db_raises) ==
  /\ pc = "table"
  /\ Len(ops) < MaxOps
  /\ DOMAIN log.changes # {}
  /\ log' = save(log, run_id, db_raises)
  /\ ops' = Append(ops, [op |-> "save", name |-> None, raised |-> db_raises,
                         run_id |-> run_id])
  /\ UNCHANGED <<builder, pc, steps, handler, ldeps, q, result, seedIdx, i, futures,
                 exc, policy, job_report>>

\* The run ids and status values used in direct calls on a LogTable.
RunIds == {<<"A", 1>>, <<"B", 2>>}
StatusValues == {"RUNNING", "SUCCESS"}

\* A LogTable used on its own, over an empty table.
InitTable ==
  /\ config = <<>>
  /\ nodes = <<>>
  /\ graph = [n \in Steps |-> <<>>]
  /\ deps = [n \in Steps |-> 0]
  /\ call = [op |-> "init"]
  /\ nAdd = 0
  /\ built = FALSE
  /\ rejected = FALSE
  /\ pc = "table"
  /\ steps = [n \in Steps |-> "undeclared"]
  /\ handler = "SimpleErrorHandler"
  /\ ldeps = [n \in Steps |-> 0]
  /\ q = <<>>
  /\ result = <<>>
  /\ seedIdx = 1
  /\ i = 1
  /\ futures = <<>>
  /\ log = NewLogHandler
  /\ exc = None
  /\ policy = <<>>
  /\ job_report = [created |-> FALSE, start_ts |-> None, end_ts |-> None,
                   exit_code |-> -1]
  /\ ops = <<>>

NextTable ==
  \/ \E r \in RunIds : SetAttr("run_id", r)
  \/ \E v \in StatusValues : SetAttr("status", v)
  \/ \E v \in Steps : SetAttr("params", v)
  \/ \E r \in RunIds, db_raises \in BOOLEAN : Save(r, db_raises)

SpecTable == InitTable /\ [][NextTable]_vars

\* A direct call pipeline.detect_cycle().
DetectCycle ==
  /\ pc = "graph"
  /\ call.op = "init"
  /\ call' = [op |-> "detect_cycle", ret |-> detect_cycle(Dag)]
  /\ UNCHANGED <<config, nodes, graph, deps, nAdd, built, rejected, pc, cursor,
                 job_report, ops>>

\* The successor lists a key may have: the steps in any order, each at most
\* once or each twice in a row, as add commits them.
SuccessorLists ==
  LET once == {l \in UNION {[1..n -> Steps] : n \in 0..Cardinality(Steps)} :
                 \A j, k \in 1..Len(l) : j # k => l[j] # l[k]}
  IN once \cup {[k \in 1..(2 * Len(l)) |-> l[(k + 1) \div 2]] : l \in once}

\* A Pipeline whose graph is any graph over the steps, with its keys in any
\* order; detect_cycle is called on it.
InitGraph ==
  /\ config = <<>>
  /\ nodes \in {l \in [1..Cardinality(Steps) -> Steps] :
                  \A j, k \in 1..Len(l) : j # k => l[j] # l[k]}
  /\ graph \in [Steps -> SuccessorLists]
  /\ deps = [n \in Steps |-> 0]
  /\ call = [op |-> "init"]
  /\ nAdd = 0
  /\ built = FALSE
  /\ rejected = FALSE
  /\ pc = "graph"
  /\ steps = [n \in Steps |-> "undeclared"]
  /\ handler = "SimpleErrorHandler"
  /\ ldeps = [n \in Steps |-> 0]
  /\ q = <<>>
  /\ result = <<>>
  /\ seedIdx = 1
  /\ i = 1
  /\ futures = <<>>
  /\ log = NewLogHandler
  /\ exc = None
  /\ policy = <<>>
  /\ job_report = [created |-> FALSE, start_ts |-> None, end_ts |-> None,
                   exit_code |-> -1]
  /\ ops = <<>>

SpecGraph == InitGraph /\ [][DetectCycle]_vars

\* ------------------------------------------------------------------------
\* Vocabulary of the properties
\* ------------------------------------------------------------------------

\* The committed edge p -> c.
Edge(p, c) == c \in Range(graph[p])

\* The successors of a set of nodes in successor lists g.
Successors(g, S) == UNION {Range(g[n]) : n \in S}

RECURSIVE Closure(_, _)
Closure(g, S) ==
  LET T == S \cup Successors(g, S) IN IF T = S THEN S ELSE Closure(g, T)

\* There is a directed path of at least one edge from a to b in g.
Reaches(g, a, b) == b \in Closure(g, Successors(g, {a}))

\* No node of g lies on a directed cycle.
Acyclic(g) == \A n \in Steps : ~Reaches(g, n, n)

\* The futures (by index) created for step s: its dispatches.
Dispatches(s) == {f \in 1..Len(futures) : futures[f].step = s}

\* The invocation of step s on the worker pool has finished.
Completed(s) == \E f \in Dispatches(s) : futures[f].state # "running"

\* The number of times s occurs in the sequence r.
Occurrences(r, s) == Cardinality({k \in 1..Len(r) : r[k] = s})

\* The rows of the log table written for step s.
RowsOf(s) ==
  {k \in 1..Len(log.table) :
     "step_name" \in DOMAIN log.table[k] /\ log.table[k]["step_name"] = s}

\* Row k of the log table has the given status.
HasStatus(k, status) ==
  "status" \in DOMAIN log.table[k] /\ log.table[k]["status"] = status

\* The step just taken is a direct call add(step, depends_on).
IsAddCall == pc = "build" /\ nAdd' = nAdd + 1 /\ call'.op = "add"

\* The configuration declares "n depends_on d".
Declares(n, d) ==
  \E j \in 1..Len(config) : config[j].name = n /\ config[j].depends_on = d

\* The position of step n in the configuration.
Position(n) == CHOOSE j \in 1..Len(config) : config[j].name = n

\* ------------------------------------------------------------------------
\* Properties
\* ------------------------------------------------------------------------

\* C1: in every scheduler run a step c has been dispatched only if every step
\* p with a committed edge p -> c has completed its invocation.
C1_DispatchAfterPrerequisites ==
  \A c \in Steps : Dispatches(c) # {} =>
    \A p \in Steps : Edge(p, c) => Completed(p)

\* C2: no step is ever dispatched twice, and when the run returns its result
\* every step of the DAG has been dispatched exactly once and occurs exactly
\* once in the result.
C2_ExactlyOnce ==
  /\ \A s \in Steps : Cardinality(Dispatches(s)) <= 1
  /\ pc = "done" =>
       /\ \A s \in Range(nodes) :
            Cardinality(Dispatches(s)) = 1 /\ Occurrences(result, s) = 1
       /\ Len(result) = Len(nodes)

\* C2 witness: a run over a DAG of three steps, one of them with two
\* prerequisites, has returned its result.
C2_Witness ==
  /\ pc = "done"
  /\ Len(nodes) = 3
  /\ \E c \in Steps : deps[c] = 2

\* C3: after any sequence of add calls the committed graph is acyclic and
\* detect_cycle over it returns False.
C3_Acyclic == ~detect_cycle(Dag) /\ Acyclic(graph)

\* C3 witness: an add call has just been rejected although neither a
\* self-dependency nor an existing edge, on a graph that holds a path of two
\* edges.
C3_Witness ==
  /\ call.op = "add"
  /\ ~call.ret
  /\ call.step # call.depends_on
  /\ ~Edge(call.depends_on, call.step)
  /\ \E a, b, c \in Steps : a # b /\ b # c /\ Edge(a, b) /\ Edge(b, c)

\* C4: an add call whose edge would close a cycle (there is a path from step
\* to depends_on) returns False and leaves nodes, successor lists and
\* in-degree counts as they were.
C4_CycleRejectedUnchanged ==
  [][(IsAddCall /\ call'.step # call'.depends_on /\ call'.depends_on # None
        /\ Reaches(graph, call'.step, call'.depends_on))
     => (~call'.ret /\ nodes' = nodes /\ graph' = graph /\ deps' = deps)]_vars

\* C4 witness: the last add call was rejected for closing a cycle.
C4_Witness ==
  /\ call.op = "add"
  /\ ~call.ret
  /\ call.step # call.depends_on
  /\ call.depends_on # None
  /\ Reaches(graph, call.step, call.depends_on)

\* C5: an add call with a self-dependency or with an edge that already exists
\* returns False and leaves nodes, successor lists and in-degree counts as
\* they were, whether or not the steps were registered before.
C5_RejectedUnchanged ==
  [][(IsAddCall /\ call'.depends_on # None
        /\ (call'.step = call'.depends_on \/ Edge(call'.depends_on, call'.step)))
     => (~call'.ret /\ nodes' = nodes /\ graph' = graph /\ deps' = deps)]_vars

\* C6 as claimed: after generate_dag on a configuration that declares A
\* depends_on B and B depends_on A, there is no edge between A and B.
C6_NoEdgeBetween ==
  (built /\ Declares("A", "B") /\ Declares("B", "A"))
    => (~Edge("A", "B") /\ ~Edge("B", "A"))

\* C6 amended: after generate_dag on such a configuration the dependency
\* declared first is committed as an edge and the one declared second is not,
\* so one edge joins A and B and the graph is acyclic.
C6_FirstDeclaredEdgeOnly ==
  (built /\ Declares("A", "B") /\ Declares("B", "A"))
    => /\ IF Position("A") < Position("B")
          THEN Edge("B", "A") /\ ~Edge("A", "B")
          ELSE Edge("A", "B") /\ ~Edge("B", "A")
       /\ ~detect_cycle(Dag)

\* C6 witness: generate_dag has run on a configuration of three steps among
\* which A depends_on B and B depends_on A.
C6_Witness ==
  built /\ Declares("A", "B") /\ Declares("B", "A") /\ Len(config) = 3

\* C7: if an add call made by generate_dag was rejected, the rejection stops
\* the pipeline: no step is dispatched by a following run.
C7_RejectionStopsRun == rejected => futures = <<>>

\* C8: a StepRun row has status SUCCESS only if the invocation of its step has
\* finished without error.
C8_SuccessAfterInvocation ==
  \A s \in Steps : \A k \in RowsOf(s) :
    HasStatus(k, "SUCCESS") => \E f \in Dispatches(s) : futures[f].state = "ok"

\* C9: when the run is over, every step whose invocation ended with an error
\* has a StepRun row with status FAILED and the error handler was called for it.
C9_FailureRecordedAndHandled ==
  pc \in {"done", "raised"} =>
    \A f \in 1..Len(futures) : futures[f].state = "error" =>
      /\ \E k \in RowsOf(futures[f].step) : HasStatus(k, "FAILED")
      /\ \E k \in 1..Len(policy) : policy[k].step = futures[f].step

\* C10: under SimpleErrorHandler, once an invocation has failed no further
\* step is dispatched.
C10_NoDispatchAfterFailure ==
  [][(pc # "build" /\ handler = "SimpleErrorHandler"
        /\ \E f \in 1..Len(futures) : futures[f].state = "error")
     => Len(futures') = Len(futures)]_vars

\* C11: when a run ends with the exception of an abort decision, every
\* invocation that was submitted has run to completion and its step is in the
\* result list of the run.
C11_InFlightCollectedOnAbort ==
  pc = "raised" =>
    \A f \in 1..Len(futures) :
      futures[f].state # "running" /\ futures[f].step \in Range(result)

\* No invocation is left running when an exception leaves the run: the exit
\* of the with block waits for the pool.
NoInvocationLeftRunning ==
  pc = "raised" => \A f \in 1..Len(futures) : futures[f].state # "running"

\* Some step recorded a failure: a row with status FAILED.
FailureRecorded == \E k \in 1..Len(log.table) : HasStatus(k, "FAILED")

\* C13: when Run has ended, normally or with an exception, the job report
\* created at its start has an end_ts and an exit code, and the exit code is
\* zero exactly when no step failure was recorded and the run was not aborted.
C13_JobReportFinalized ==
  pc \in {"done", "raised"} =>
    /\ job_report.created
    /\ job_report.end_ts # None
    /\ job_report.exit_code # -1
    /\ job_report.exit_code = 0 <=> (~FailureRecorded /\ exc = None)

\* Row k of the log table has a terminal status.
Terminal(k) == HasStatus(k, "SUCCESS") \/ HasStatus(k, "FAILED")

\* The run is under ContinueUnlessCritical and the invocation of A has raised.
InvocationOfAFailed ==
  /\ handler = "ContinueUnlessCritical"
  /\ \E f \in Dispatches("A") : futures[f].state = "error"

\* B and C have been dispatched and each has a row in a terminal status.
BothDispatchedAndRecorded ==
  \A s \in {"B", "C"} : Dispatches(s) # {} /\ \E k \in RowsOf(s) : Terminal(k)

\* C12: in the fan-out A -> B, A -> C run under ContinueUnlessCritical, when
\* the invocation of A has failed and the scheduler has collected it, B and C
\* have been dispatched and each has a row in a terminal status (unless a
\* submission to the pool raised); so it is in every run that ends normally.
C12_DependentsRunAfterFailure ==
  (InvocationOfAFailed /\ "A" \in Range(result) /\ exc = None) =>
    BothDispatchedAndRecorded

C12_Witness ==
  /\ InvocationOfAFailed
  /\ BothDispatchedAndRecorded
  /\ exc = None
  /\ pc = "done"

\* The status column of row k of the table of handler l; NULL when not set.
StatusOf(l, k) ==
  IF "status" \in DOMAIN l.table[k] THEN l.table[k]["status"] ELSE "NULL"

\* C14: the status values stored in a row follow QUEUED, RUNNING, then
\* SUCCESS or FAILED: a new row has status QUEUED, and a status changes only
\* from QUEUED to RUNNING or from RUNNING to SUCCESS or FAILED.
C14_StatusSequence ==
  [][\A k \in 1..Len(log'.table) :
       IF k > Len(log.table)
       THEN StatusOf(log', k) = "QUEUED"
       ELSE StatusOf(log', k) # StatusOf(log, k) =>
              <<StatusOf(log, k), StatusOf(log', k)>> \in
                {<<"QUEUED", "RUNNING">>, <<"RUNNING", "SUCCESS">>,
                 <<"RUNNING", "FAILED">>}]_vars

\* The rows of the table of handler l that carry run_id.
RowsWith(l, run_id) ==
  {k \in 1..Len(l.table) :
     "run_id" \in DOMAIN l.table[k] /\ l.table[k]["run_id"] = run_id}

\* The step just taken is a direct call op on a handler with an open run id,
\* and its statement went through.
Closes(op) ==
  /\ log.run_id # NoRunId
  /\ Len(ops') = Len(ops) + 1
  /\ ops'[Len(ops')].op = op
  /\ ~ops'[Len(ops')].raised

\* C15: success() on the run id made by create leaves exactly one row for that
\* run id, with status SUCCESS and an end_ts; failed() leaves exactly one row,
\* with status FAILED and an error_message.
C15_CreateThenClose ==
  [][/\ Closes("success") =>
          /\ Cardinality(RowsWith(log', log.run_id)) = 1
          /\ \A k \in RowsWith(log', log.run_id) :
               /\ StatusOf(log', k) = "SUCCESS"
               /\ "end_ts" \in DOMAIN log'.table[k]
     /\ Closes("failed") =>
          /\ Cardinality(RowsWith(log', log.run_id)) = 1
          /\ \A k \in RowsWith(log', log.run_id) :
               /\ StatusOf(log', k) = "FAILED"
               /\ "error_message" \in DOMAIN log'.table[k]
               /\ log'.table[k]["error_message"] = "Error"]_vars

C15_Witness ==
  /\ Len(ops) = 4
  /\ ops[1] = [op |-> "create", name |-> "A", raised |-> FALSE]
  /\ ops[2] = [op |-> "success", name |-> None, raised |-> FALSE]
  /\ ops[3] = [op |-> "create", name |-> "A", raised |-> FALSE]
  /\ ops[4] = [op |-> "failed", name |-> None, raised |-> FALSE]
  /\ Len(log.table) = 2
  /\ StatusOf(log, 1) = "SUCCESS"
  /\ StatusOf(log, 2) = "FAILED"

\* C16: a recorder call that fails to persist never stops the scheduler: no
\* exception of the database connection leaves the run.
C16_RecorderFailureNeverStopsRun == exc # "duckdb.Error"

\* C17: every row holds the columns of one step only: its step_name and params
\* are those of the step its run_id was made for, and its timestamps were read
\* under that run_id.
C17_RowsKeepToTheirStep ==
  \A k \in 1..Len(log.table) :
    LET row == log.table[k] IN
    "run_id" \in DOMAIN row =>
      /\ row["step_name"] = row["run_id"][1]
      /\ row["params"] = row["run_id"][1]
      /\ \A col \in {"start_ts", "end_ts", "last_updated_at"} \cap DOMAIN row :
           row[col] = <<"now", row["run_id"][2]>>

\* C18: a step whose action name is not registered is never submitted to the
\* pool and never recorded; the not-found error leaves the run without a call
\* of the error handler, and no run with such a step among its nodes ends
\* normally.
C18_UnregisteredRaisesAtOnce ==
  /\ \A s \in Steps :
       steps[s] = "unregistered" =>
         /\ Dispatches(s) = {}
         /\ RowsOf(s) = {}
         /\ pc = "done" => s \notin Range(nodes)
  /\ exc = "ActionNotFound" => pc \in {"unwinding", "raised"} /\ policy = <<>>

C18_Witness ==
  /\ exc = "ActionNotFound"
  /\ pc = "raised"
  /\ steps["B"] = "unregistered"
  /\ Completed("A")
  /\ Dispatches("B") = {}

\* C19: in the fan-out A -> B, A -> C, in every run A comes before B and
\* before C in the completion order.
C19_ABeforeBAndC ==
  \A s \in {"B", "C"} :
    \A k \in 1..Len(result) :
      result[k] = s => \E j \in 1..(k - 1) : result[j] = "A"

\* B was dispatched before C and C completed first.
C19_Witness ==
  /\ pc = "done"
  /\ result = <<"A", "C", "B">>
  /\ \E f \in Dispatches("B"), g \in Dispatches("C") : f < g

\* The other order of B and C.
C19_WitnessBC ==
  /\ pc = "done"
  /\ result = <<"A", "B", "C">>
  /\ \E f \in Dispatches("B"), g \in Dispatches("C") : f < g

\* C20: the scheduler holds no step back for a step it does not depend on:
\* once the seeding loop is over, a step whose prerequisites have all been
\* collected has been dispatched, whatever else is still running.
C20_ReadyStepsAreDispatched ==
  (pc \in {"while", "for", "done"} /\ exc = None) =>
    \A s \in Range(nodes) :
      (\A p \in Steps : Edge(p, s) => p \in Range(result)) => Dispatches(s) # {}

\* The invocations of two steps with no path between them are running at the
\* same time.
C20_Witness ==
  \E f, g \in 1..Len(futures) :
    /\ futures[f].state = "running"
    /\ futures[g].state = "running"
    /\ futures[f].step # futures[g].step
    /\ ~Reaches(graph, futures[f].step, futures[g].step)
    /\ ~Reaches(graph, futures[g].step, futures[f].step)

\* C21: while a run is under way the graph's nodes, successor lists and
\* in-degree map stay as they were, and every call of run that returns has
\* dispatched the same set of steps: the nodes of the graph.
C21_RunLeavesDagUnchanged ==
  [][/\ pc \notin {"build", "recorder"} =>
          nodes' = nodes /\ graph' = graph /\ deps' = deps
     /\ pc' = "done" =>
          {futures'[f].step : f \in 1..Len(futures')} = Range(nodes')]_vars

\* The second run has returned after dispatching A, B and C.
C21_Witness ==
  /\ call = [op |-> "rerun"]
  /\ pc = "done"
  /\ {futures[f].step : f \in 1..Len(futures)} = {"A", "B", "C"}
  /\ deps = [n \in Steps |-> IF n = "A" THEN 0 ELSE 1]

\* C22: a run does not return normally with fewer completed steps than the
\* graph has nodes: when the loop ends with nothing pending and steps
\* missing, an error is reported.
C22_PartialResultReported == pc = "done" => Len(result) = Len(nodes)

Saved ==
  /\ Len(ops') = Len(ops) + 1
  /\ ops'[Len(ops')].op = "save"
  /\ ~ops'[Len(ops')].raised

RunIdsIn(l) ==
  {l.table[k]["run_id"] : k \in {j \in 1..Len(l.table) : "run_id" \in DOMAIN l.table[j]}}

\* C25: no recorder call deletes a row: over any sequence of create, start,
\* success, failed and end calls the table never gets shorter and the set of
\* the run ids in it only grows.
C25_RowsNeverDeleted ==
  [][/\ Len(log'.table) >= Len(log.table)
     /\ RunIdsIn(log) \subseteq RunIdsIn(log')]_vars

\* end() was called on a table that has the row of a closed run.
C25_Witness ==
  /\ pc = "recorder"
  /\ Len(ops) >= 3
  /\ ops[Len(ops)].op = "end"
  /\ \E k \in 1..Len(log.table) : HasStatus(k, "SUCCESS") /\ "run_id" \in DOMAIN log.table[k]

\* C26: when the scheduler has called the ContinueUnlessCritical handler for
\* a failed step, the run is aborted exactly if the error is an
\* InvalidSourceError; after any other error scheduling goes on.
C26_AbortIffCritical ==
  handler = "ContinueUnlessCritical" =>
    \A k \in 1..Len(policy) :
      exc # None <=> policy[k].error = "InvalidSourceError"

\* Some pending dispatch of q has completed.
SomePendingCompleted ==
  \E k \in 1..Len(q) : q[k][2] # NoFuture /\ futures[q[k][2]].state # "running"

\* C27: the scheduler starts a pass over the pending dispatches only when one
\* of them has completed.
C27_PassOnlyOnCompletion ==
  [][(pc = "while" /\ pc' = "for") => SomePendingCompleted]_vars

\* C28: detect_cycle returns True exactly when the graph has a directed
\* cycle, whatever the graph and the order of its keys, also when the cycle
\* lies in a component the first traversal does not reach.
C28_DetectCycleExact ==
  call.op = "detect_cycle" => (call.ret <=> ~Acyclic(graph))

\* A cycle between B and C was found in a graph whose first key, A, has no
\* edge at all.
C28_Witness ==
  /\ call.op = "detect_cycle"
  /\ call.ret
  /\ nodes = <<"A", "B", "C">>
  /\ graph = [n \in Steps |-> IF n = "B" THEN <<"C">>
                               ELSE IF n = "C" THEN <<"B">> ELSE <<>>]

\* The number of successor-list entries that point to step c.
EntriesTo(c) ==
  Cardinality({e \in Steps \X (1..(2 * Cardinality(Steps))) :
                 e[2] <= Len(graph[e[1]]) /\ graph[e[1]][e[2]] = c})

\* C29: after any sequence of add calls every committed edge is in its
\* successor list exactly once, and the in-degree of every step is the number
\* of successor-list entries that point to it.
C29_EdgesOnceAndCounted ==
  \A c \in Steps :
    /\ \A p \in Steps : Occurrences(graph[p], c) <= 1
    /\ deps[c] = EntriesTo(c)

\* The prerequisites of step s that the scheduler has not collected yet.
OpenPrerequisites(s) == {p \in Steps : Edge(p, s) /\ p \notin Range(result)}

\* C30: at every point of a run the run-local in-degree of a step is the
\* number of its prerequisites that have not completed yet, and so is never
\* negative.
C30_LocalInDegreeCountsOpen ==
  pc \in {"seed", "while", "for", "unwinding", "done", "raised"} =>
    \A s \in Steps :
      ldeps[s] >= 0 /\ ldeps[s] = Cardinality(OpenPrerequisites(s))

\* C31: the list a run returns is a topological order of the graph: for every
\* committed edge p -> c, p occurs in it before c.
C31_ResultIsTopologicalOrder ==
  pc = "done" =>
    \A p, c \in Steps :
      Edge(p, c) =>
        \A k \in 1..Len(result) :
          result[k] = c => \E j \in 1..(k - 1) : result[j] = p

\* C32: under fair scheduling a run that was started comes to an end (it
\* returns or raises), and it returns exactly at a test of "while q" that
\* finds no dispatch pending.
C32_RunTerminates ==
  /\ (call.op = "run") ~> (pc \in {"done", "raised"})
  /\ [][(pc # "done" /\ pc' = "done") <=> (pc = "while" /\ q = <<>> /\ pc' # pc)]_vars

\* A run of three steps has returned with every step completed.
C32_Witness ==
  /\ pc = "done"
  /\ call.op = "run"
  /\ q = <<>>
  /\ Len(result) = Cardinality(Steps)
  /\ \E p, c \in Steps : Edge(p, c)

\* C33: a row whose status is SUCCESS or FAILED keeps that status through
\* every later recorder operation.
C33_TerminalStatusIsFinal ==
  [][\A k \in 1..Len(log.table) :
       StatusOf(log, k) \in {"SUCCESS", "FAILED"} =>
         /\ k <= Len(log'.table)
         /\ StatusOf(log', k) = StatusOf(log, k)]_vars

\* C34: a call of topological_sort leaves the in-degree map of the DAG as
\* it was.
C34_SortLeavesInDegrees ==
  [][(call.op # "topological_sort" /\ call'.op = "topological_sort") =>
       deps' = deps]_vars

\* The dependencies the configuration declares, as successor lists.
Declared ==
  [p \in Steps |->
     LET es == SelectSeq(config, LAMBDA e : e.depends_on = p)
     IN [k \in 1..Len(es) |-> es[k].name]]

\* C35: add returns False only for a self-dependency, for an edge that
\* exists already, or for an edge whose step reaches depends_on; and
\* generate_dag on a fresh pipeline whose declared dependencies are acyclic
\* rejects nothing and commits every declared dependency.
C35_RejectsOnlyForCause ==
  /\ [][(IsAddCall /\ ~call'.ret) =>
          /\ call'.depends_on # None
          /\ \/ call'.depends_on = call'.step
             \/ call'.step \in Range(graph[call'.depends_on])
             \/ Reaches(graph, call'.step, call'.depends_on)]_vars
  /\ []((call.op = "generate_dag" /\ nAdd = 0 /\ Acyclic(Declared)) =>
          /\ ~rejected
          /\ \A n \in Steps, d \in Steps : Declares(n, d) => Edge(d, n))

\* generate_dag has committed a chain declared against its direction: the
\* configuration declares C depends_on B before B depends_on A.
C35_Witness ==
  /\ call.op = "generate_dag"
  /\ nAdd = 0
  /\ Acyclic(Declared)
  /\ \E j, k \in 1..Len(config) :
       /\ j < k
       /\ config[k].depends_on # None
       /\ config[j].depends_on = config[k].name
  /\ Cardinality({<<d, n>> \in Steps \X Steps : Edge(d, n)}) = 2

\* C36: when start, success or failed has returned, with True or with False
\* after an exception of save, nothing is left in the stage buffer.
C36_StageEmptyAfterOperation ==
  (ops # <<>> /\ ops[Len(ops)].op \in {"start", "success", "failed"}) =>
    DOMAIN log.changes = {}

\* C37: every row of the table carries a run_id, the one Create made for it:
\* no row comes from a start, success or failed called while no run is
\* active.
C37_EveryRowHasRunId ==
  \A k \in 1..Len(log.table) :
    /\ "run_id" \in DOMAIN log.table[k]
    /\ log.table[k]["run_id"] # NoRunId

\* C38: every node of the graph generate_dag has built is a step the
\* configuration declares.
C38_NodesAreDeclared ==
  built => \A n \in Range(nodes) : \E j \in 1..Len(config) : config[j].name = n

\* C39: every entry of the pending queue q carries a future.
C39_EveryEntryHasFuture == \A k \in 1..Len(q) : q[k][2] # NoFuture

====
